---- MODULE Spec2Model ----
(***************************************************************************)
(* Model of the chai-rs editing core: a line-addressable document          *)
(* (ExtendedLinkedList<Rope>) shared through raw pointers by one or more   *)
(* editors (Editor / TextBlock), each with its own cursor, scroll offset   *)
(* and Normal/Insert/Command mode.                                         *)
(*                                                                         *)
(* A line (Rope) is a sequence of one-character strings; the document is a *)
(* sequence of lines.  Rows and columns are 0-based as in the source; the  *)
(* 1-based TLA+ sequences are indexed with +1.                             *)
(***************************************************************************)
EXTENDS Integers, Sequences, FiniteSets, TLC

VARIABLES
    lines,        \* the shared document content: *mut ExtendedLinkedList<Rope>
    views,        \* the editors that exist, all created on `lines`
    cursor,       \* cursor[v]   : TextBlock.cursor  (x = column, y = row), as stored
    offset,       \* offset[v]   : TextBlock.offset  (scroll offset)
    mode,         \* mode[v]     : TextBlock.mode
    size,         \* size[v]     : TextBlock.size
    position,     \* position[v] : TextBlock.position
    window_size,  \* the TermSize handed to every render pass
    info,         \* info[v]     : Editor.info_line.content, the status document
    last,         \* history: the operation that produced this state, its result, the
                  \*          cursor and mode of its view before it, and whether it
                  \*          changed the document
    undo          \* history: an Enter at end of line and the Backspace right after it

vars ==
    <<lines, views, cursor, offset, mode, size, position, window_size, info, last, undo>>

----------------------------------------------------------------------------
(* Bounds of the model *)

\* Enter is offered only while the document has fewer lines than this.
MaxLines == 3
\* A character is typed only while the document holds fewer characters than this.
MaxChars == 2

\* The number of characters one leaf of a Rope holds (ropey keeps about a
\* thousand bytes per leaf; the model keeps the lines of the editing
\* specifications below it and those of the scrolling specification above it).
ChunkChars == 8

\* The largest size, position and terminal size of the effective-size
\* specification, per axis.
MaxSide == 3

\* The editors that may exist.
ViewIds == {1, 2}

\* Characters typed in Insert mode: a word character and a punctuation character.
TypedChars == {"i", ":"}

----------------------------------------------------------------------------
(* Small arithmetic helpers of the Rust standard library *)

saturating_sub(a, b) == IF a > b THEN a - b ELSE 0

Min(a, b) == IF a < b THEN a ELSE b

Max(a, b) == IF a > b THEN a ELSE b

\* Option<T>
None == [some |-> FALSE, val |-> 0]

Some(x) == [some |-> TRUE, val |-> x]

----------------------------------------------------------------------------
(* Rope: the operations of ropey the editor uses, on a sequence of chars *)

len_chars(l) == Len(l)

\* Rope::get_slice(a..b): None when the range is reversed or out of bounds.
get_slice(l, a, b) ==
    IF a <= b /\ b <= Len(l) THEN Some(SubSeq(l, a + 1, b)) ELSE None

\* RopeSlice::as_str of the slice [a, b) of l: the text when the slice lies in
\* one leaf of the rope, None when it crosses a leaf boundary.  The leaves of a
\* rope built from a string are filled from the left, ChunkChars each.
as_str(l, a, b) ==
    IF a = b \/ (a \div ChunkChars) = ((b - 1) \div ChunkChars)
    THEN Some(SubSeq(l, a + 1, b))
    ELSE None

\* Rope::try_split_off(at): the rope keeps [0, at), the result is [at, len).
split_head(l, at) == SubSeq(l, 1, at)

split_tail(l, at) == SubSeq(l, at + 1, Len(l))

\* Rope::try_insert_char(idx, c), idx <= len.
insert_char(l, idx, c) == SubSeq(l, 1, idx) \o <<c>> \o SubSeq(l, idx + 1, Len(l))

\* Mutant of try_remove: the range removed starts at b, right of the cursor.
remove_range_right(l, a, b) == SubSeq(l, 1, b) \o SubSeq(l, b + (b - a) + 1, Len(l))

\* Rope::try_remove(a..b), a <= b <= len.
remove_range(l, a, b) == SubSeq(l, 1, a) \o SubSeq(l, b + 1, Len(l))

----------------------------------------------------------------------------
(* ExtendedLinkedList *)

\* ExtendedLinkedList::get / get_mut: iter().nth(index).
get(ls, index) == IF index < Len(ls) THEN Some(ls[index + 1]) ELSE None

\* LinkedList::split_off(at) panics when at > len.
split_off_panics(ls, at) == at > Len(ls)

\* Mutant of push_at: the element is pushed at the back of the list.
push_at_back(ls, index, element) == ls \o <<element>>

\* ExtendedLinkedList::push_at(index, element), index <= len.
push_at(ls, index, element) ==
    SubSeq(ls, 1, index) \o <<element>> \o SubSeq(ls, index + 1, Len(ls))

\* ExtendedLinkedList::remove_at(index): the list without that element
\* (unchanged when there is none; the caller sees None).
remove_at(ls, index) ==
    SubSeq(ls, 1, index) \o SubSeq(ls, index + 2, Len(ls))

\* The list with the line at `index` (which exists) replaced.
set_line(ls, index, l) == [ls EXCEPT ![index + 1] = l]

----------------------------------------------------------------------------
(* Word-Motion Analyzer: WORD_REGEX = \w+|[^\w\s]+ *)

\* \w of the characters the model uses (letters); \s is the blank; every other
\* character is punctuation.
WordChars == {"h", "l", "k", "j", "i", "b", "e", "w"}

SpaceChars == {" "}

CharClass(ch) ==
    IF ch \in WordChars THEN "word"
    ELSE IF ch \in SpaceChars THEN "space" ELSE "punct"

\* The end (exclusive) of the maximal run of l's characters of class cls that
\* starts at offset i: what the greedy + of the regex consumes.
RECURSIVE RunEnd(_, _, _)
RunEnd(l, i, cls) ==
    IF i < Len(l) /\ CharClass(l[i + 1]) = cls THEN RunEnd(l, i + 1, cls) ELSE i

\* WORD_REGEX.captures_iter(line): the matches from offset i on, left to
\* right, each with its start and its end (exclusive).
RECURSIVE captures_from(_, _)
captures_from(l, i) ==
    IF i >= Len(l) THEN <<>>
    ELSE IF CharClass(l[i + 1]) = "space" THEN captures_from(l, i + 1)
    ELSE LET e == RunEnd(l, i, CharClass(l[i + 1]))
         IN  <<[start |-> i, end |-> e]>> \o captures_from(l, e)

captures_iter(l) == captures_from(l, 0)

\* Iterator::skip_while(|c| c.end() <= x)
RECURSIVE skip_while_end_le(_, _)
skip_while_end_le(caps, x) ==
    IF caps # <<>> /\ Head(caps).end <= x
    THEN skip_while_end_le(Tail(caps), x)
    ELSE caps

----------------------------------------------------------------------------
(* TextBlock: accessors.  ls is the content, c the stored cursor [x, y]. *)

\* anyhow::Result<T>
Err == [ok |-> FALSE, val |-> 0]

Ok(x) == [ok |-> TRUE, val |-> x]

\* TextBlock::get_line_at / get_line_at_mut: Err("No line at index") on a miss.
get_line_at(ls, index) ==
    LET line == get(ls, index) IN IF line.some THEN Ok(line.val) ELSE Err

\* TextBlock::get_line_len
get_line_len(ls, index) ==
    LET line == get_line_at(ls, index)
    IN  IF line.ok THEN Ok(len_chars(line.val)) ELSE Err

\* Mutant of goto_line: the row is not clamped to the last line.
goto_line_unclamped(ls, c, line_number) == [c EXCEPT !.y = line_number]

\* TextBlock::goto_line: the cursor after it.
goto_line(ls, c, line_number) ==
    [c EXCEPT !.y = Min(line_number, saturating_sub(Len(ls), 1))]

\* TextBlock::get_cursor_pos: the column clamped to the line, the row as stored.
get_cursor_pos(ls, c) ==
    LET line == get_line_at(ls, c.y)
    IN  IF line.ok THEN Ok([x |-> Min(c.x, len_chars(line.val)), y |-> c.y]) ELSE Err

\* get_line_at(index).ok()?.get_slice(0..)?.as_str()?: the text of a line, None
\* when there is no such line or the line is not contiguous in its rope.
line_str(ls, index) ==
    LET line == get_line_at(ls, index) IN
    IF ~line.ok THEN None ELSE as_str(line.val, 0, len_chars(line.val))

\* TextBlock::get_prev_word_start
get_prev_word_start(ls, c) ==
    LET line == get_line_at(ls, c.y) IN
    IF ~line.ok THEN None
    ELSE IF ~get_slice(line.val, 0, c.x).some THEN None
    ELSE LET slice == as_str(line.val, 0, c.x) IN
         IF ~slice.some THEN None
         ELSE LET caps == captures_iter(slice.val)
              IN  IF caps = <<>> THEN None ELSE Some(caps[Len(caps)].start)

\* TextBlock::get_next_word_end
get_next_word_end(ls, c) ==
    LET line == line_str(ls, c.y) IN
    IF ~line.some THEN None
    ELSE LET caps == skip_while_end_le(captures_iter(line.val), c.x) IN
         IF caps = <<>> THEN None
         ELSE LET word_end == caps[1].end - 1 IN
              IF word_end = c.x
              THEN IF Len(caps) >= 2 THEN Some(caps[2].end - 1) ELSE None
              ELSE Some(word_end)

\* TextBlock::get_first_word_end_at_line
get_first_word_end_at_line(ls, line_number) ==
    LET line == line_str(ls, line_number) IN
    IF ~line.some THEN None
    ELSE LET caps == captures_iter(line.val)
         IN  IF caps = <<>> THEN None ELSE Some(caps[1].end - 1)

\* TextBlock::get_next_word_start
get_next_word_start(ls, c) ==
    LET line == line_str(ls, c.y) IN
    IF ~line.some THEN None
    ELSE LET caps == skip_while_end_le(captures_iter(line.val), c.x) IN
         IF caps = <<>> THEN None
         ELSE LET word_end == caps[1].start IN
              IF word_end = c.x
              THEN IF Len(caps) >= 2 THEN Some(caps[2].start) ELSE None
              ELSE Some(word_end)

\* TextBlock::get_first_word_start_at_line
get_first_word_start_at_line(ls, line_number) ==
    LET line == line_str(ls, line_number) IN
    IF ~line.some THEN None
    ELSE LET caps == captures_iter(line.val)
         IN  IF caps = <<>> THEN None ELSE Some(caps[1].start)

\* TextBlock::get_last_word_start_at_line
get_last_word_start_at_line(ls, line_number) ==
    LET line == line_str(ls, line_number) IN
    IF ~line.some THEN None
    ELSE LET caps == captures_iter(line.val)
         IN  IF caps = <<>> THEN None ELSE Some(caps[Len(caps)].start)

----------------------------------------------------------------------------
(* Input events: crossterm KeyEvent {modifiers, code}; ch is the character of *)
(* a KeyCode::Char and "" otherwise.                                          *)

Key(mods, code, ch) == [mods |-> mods, code |-> code, ch |-> ch]

NoKey == Key("NONE", "None", "")

\* The characters handle_key names in Normal mode.
CommandChars == {"h", "l", "k", "j", ":", "i", "b", "e", "w"}

\* The events offered to an editor.  Tab stands for every code the editor does
\* not name; Shift and Control for the modifiers.
Keys ==
    {Key("NONE", code, "") :
        code \in {"Left", "Right", "Up", "Down", "Esc", "Enter", "Backspace", "Tab"}}
    \cup {Key("NONE", "Char", ch) : ch \in CommandChars \cup TypedChars}
    \cup {Key("SHIFT", "Char", ":"), Key("SHIFT", "Esc", ""), Key("CONTROL", "Char", ":")}

IsChar(key, mods, ch) == key.mods = mods /\ key.code = "Char" /\ key.ch = ch

IsCode(key, mods, code) == key.mods = mods /\ key.code = code

----------------------------------------------------------------------------
(* TextBlock::handle_key.  The result is Err, or the cursor and the mode     *)
(* after the key and the TextBlockEvent returned ("None", "Char", "NewLine", *)
(* "Delete").                                                                *)

Handled(c, m, event) == [ok |-> TRUE, cursor |-> c, mode |-> m, event |-> event]

HandleErr(c, m) == [ok |-> FALSE, cursor |-> c, mode |-> m, event |-> "None"]

\* Mutant of the Left arm: the column is not clamped to the line.
key_left_unclamped(ls, c, m) ==
    LET line == get_line_at(ls, c.y) IN
    IF ~line.ok THEN HandleErr(c, m)
    ELSE Handled([c EXCEPT !.x = saturating_sub(c.x, 1)], m, "None")

\* (NONE, Left, _) | (NONE, Char('h'), Normal)
key_left(ls, c, m) ==
    LET line == get_line_at(ls, c.y) IN
    IF ~line.ok THEN HandleErr(c, m)
    ELSE Handled([c EXCEPT !.x = Min(saturating_sub(c.x, 1),
                                     saturating_sub(len_chars(line.val), 1))],
                 m, "None")

\* Mutant of the Right arm: the column is clamped to the line and the previous
\* column is not kept.
key_right_clamped(ls, c, m) ==
    LET line == get_line_at(ls, c.y) IN
    IF ~line.ok THEN HandleErr(c, m)
    ELSE Handled([c EXCEPT !.x = Min(c.x + 1, len_chars(line.val))], m, "None")

\* (NONE, Right, _) | (NONE, Char('l'), Normal)
key_right(ls, c, m) ==
    LET line == get_line_at(ls, c.y) IN
    IF ~line.ok THEN HandleErr(c, m)
    ELSE LET prev_cursor_x == c.x
             moved == Min(c.x + 1, len_chars(line.val))
         IN  Handled([c EXCEPT !.x = Max(moved, prev_cursor_x)], m, "None")

\* (NONE, Up, _) | (NONE, Char('k'), Normal)
key_up(ls, c, m) == Handled(goto_line(ls, c, saturating_sub(c.y, 1)), m, "None")

\* (NONE, Down, _) | (NONE, Char('j'), Normal)
key_down(ls, c, m) == Handled(goto_line(ls, c, c.y + 1), m, "None")

\* (NONE, Char('b'), Normal)
key_b(ls, c, m) ==
    LET prev_start == get_prev_word_start(ls, c) IN
    IF prev_start.some THEN Handled([c EXCEPT !.x = prev_start.val], m, "None")
    ELSE IF c.y = 0 THEN Handled(c, m, "None")
    ELSE LET prev_line_start == get_last_word_start_at_line(ls, c.y - 1) IN
         IF ~prev_line_start.some THEN Handled(c, m, "None")
         ELSE Handled([x |-> prev_line_start.val, y |-> c.y - 1], m, "None")

\* (NONE, Char('e'), Normal)
key_e(ls, c, m) ==
    LET word_end == get_next_word_end(ls, c) IN
    IF word_end.some THEN Handled([c EXCEPT !.x = word_end.val], m, "None")
    ELSE LET next_word_end == get_first_word_end_at_line(ls, c.y + 1) IN
         IF ~next_word_end.some THEN Handled(c, m, "None")
         ELSE Handled([x |-> next_word_end.val, y |-> c.y + 1], m, "None")

\* (NONE, Char('w'), Normal)
key_w(ls, c, m) ==
    LET word_start == get_next_word_start(ls, c) IN
    IF word_start.some THEN Handled([c EXCEPT !.x = word_start.val], m, "None")
    ELSE LET next_word_start == get_first_word_start_at_line(ls, c.y + 1) IN
         IF next_word_start.some
         THEN Handled([x |-> next_word_start.val, y |-> c.y + 1], m, "None")
         ELSE LET current_word_end == get_next_word_end(ls, c) IN
              IF ~current_word_end.some THEN Handled(c, m, "None")
              ELSE Handled([c EXCEPT !.x = current_word_end.val], m, "None")

handle_key(ls, c, m, key) ==
    CASE IsCode(key, "NONE", "Left") \/ (IsChar(key, "NONE", "h") /\ m = "Normal") ->
            key_left(ls, c, m)
      [] IsCode(key, "NONE", "Right") \/ (IsChar(key, "NONE", "l") /\ m = "Normal") ->
            key_right(ls, c, m)
      [] IsCode(key, "NONE", "Up") \/ (IsChar(key, "NONE", "k") /\ m = "Normal") ->
            key_up(ls, c, m)
      [] IsCode(key, "NONE", "Down") \/ (IsChar(key, "NONE", "j") /\ m = "Normal") ->
            key_down(ls, c, m)
      [] key.code = "Char" /\ key.ch = ":" /\ m = "Normal" ->
            Handled(c, "Command", "None")
      [] IsChar(key, "NONE", "i") /\ m = "Normal" -> Handled(c, "Insert", "None")
      [] IsChar(key, "NONE", "b") /\ m = "Normal" -> key_b(ls, c, m)
      [] IsChar(key, "NONE", "e") /\ m = "Normal" -> key_e(ls, c, m)
      [] IsChar(key, "NONE", "w") /\ m = "Normal" -> key_w(ls, c, m)
      [] key.mods \in {"NONE", "SHIFT"} /\ key.code = "Char" /\ m = "Insert" ->
            Handled(c, m, "Char")
      [] IsCode(key, "NONE", "Esc") /\ m \in {"Insert", "Command"} ->
            Handled(c, "Normal", "None")
      [] IsCode(key, "NONE", "Enter") /\ m = "Insert" -> Handled(c, m, "NewLine")
      [] IsCode(key, "NONE", "Backspace") /\ m = "Insert" -> Handled(c, m, "Delete")
      [] OTHER -> Handled(c, m, "None")

----------------------------------------------------------------------------
(* TextBlock: the edits.  Each result is [ok, lines, cursor]: the content and *)
(* the stored cursor after the call (both as before it when ok is FALSE).     *)

Edited(ls, c) == [ok |-> TRUE, lines |-> ls, cursor |-> c]

EditErr(ls, c) == [ok |-> FALSE, lines |-> ls, cursor |-> c]

\* Mutant of add_char: the character goes into a private copy of the line, the
\* shared content stays as it was.
add_char_private_copy(ls, c, ch) ==
    IF get_cursor_pos(ls, c).ok THEN Edited(ls, c) ELSE EditErr(ls, c)

\* TextBlock::add_char
add_char(ls, c, ch) ==
    LET pos == get_cursor_pos(ls, c) IN
    IF ~pos.ok THEN EditErr(ls, c)
    ELSE LET cursor_index == pos.val.x
             line_index   == pos.val.y
             last_line    == get_line_at(ls, line_index).val
         IN  Edited(set_line(ls, line_index, insert_char(last_line, cursor_index, ch)), c)

\* TextBlock::new_line
new_line(ls, c) ==
    LET pos == get_cursor_pos(ls, c) IN
    IF ~pos.ok THEN EditErr(ls, c)
    ELSE LET cursor_x == pos.val.x
             cursor_y == pos.val.y
             line     == get_line_at(ls, cursor_y).val
             cut      == cursor_x < len_chars(line)
             kept     == IF cut THEN split_head(line, cursor_x) ELSE line
             new      == IF cut THEN split_tail(line, cursor_x) ELSE <<>>
         IN  Edited(push_at(set_line(ls, cursor_y, kept), cursor_y + 1, new),
                    [x |-> 0, y |-> c.y + 1])

\* Mutant of subtract_cursor_pos: column 0 never moves to the previous row.
subtract_cursor_pos_same_row(ls, c) ==
    LET pos == get_cursor_pos(ls, c) IN
    IF ~pos.ok THEN Err
    ELSE Ok([x |-> saturating_sub(pos.val.x, 1), y |-> pos.val.y])

\* TextBlock::subtract_cursor_pos
subtract_cursor_pos(ls, c) ==
    LET pos == get_cursor_pos(ls, c) IN
    IF ~pos.ok THEN Err
    ELSE LET x == pos.val.x
             y == pos.val.y
         IN  CASE x = 0 /\ y = 0 -> Ok(pos.val)
               [] x = 0 /\ y # 0 ->
                    LET prev_len == get_line_len(ls, saturating_sub(y, 1))
                    IN  Ok([x |-> saturating_sub(IF prev_len.ok THEN prev_len.val ELSE 0, 1),
                            y |-> saturating_sub(y, 1)])
               [] x # 0 /\ y = 0 -> Ok([x |-> saturating_sub(x, 1), y |-> 0])
               [] OTHER -> Ok([x |-> saturating_sub(x, 1), y |-> y])

\* Mutant of append_to_prev_line: the removed line goes in front of the
\* previous line.
append_to_prev_line_in_front(ls, cursor_y) ==
    IF cursor_y = 0 THEN [ok |-> TRUE, lines |-> ls]
    ELSE LET removed_line == get(ls, cursor_y) IN
         IF ~removed_line.some THEN [ok |-> FALSE, lines |-> ls]
         ELSE LET rest      == remove_at(ls, cursor_y)
                  prev_line == get_line_at(rest, saturating_sub(cursor_y, 1))
              IN  IF ~prev_line.ok THEN [ok |-> FALSE, lines |-> rest]
                  ELSE [ok    |-> TRUE,
                        lines |-> set_line(rest, saturating_sub(cursor_y, 1),
                                           removed_line.val \o prev_line.val)]

\* TextBlock::append_to_prev_line: [ok, lines]; cursor_y is self.cursor.y.
append_to_prev_line(ls, cursor_y) ==
    IF cursor_y = 0 THEN [ok |-> TRUE, lines |-> ls]
    ELSE LET removed_line == get(ls, cursor_y) IN
         IF ~removed_line.some THEN [ok |-> FALSE, lines |-> ls]
         ELSE LET rest      == remove_at(ls, cursor_y)
                  prev_line == get_line_at(rest, saturating_sub(cursor_y, 1))
              IN  IF ~prev_line.ok THEN [ok |-> FALSE, lines |-> rest]
                  ELSE [ok    |-> TRUE,
                        lines |-> set_line(rest, saturating_sub(cursor_y, 1),
                                           prev_line.val \o removed_line.val)]

\* TextBlock::delete
delete(ls, c) ==
    LET pos == get_cursor_pos(ls, c) IN
    IF ~pos.ok THEN EditErr(ls, c)
    ELSE LET cursor_index == pos.val.x
             cursor_x     == pos.val.x
             cursor_y     == pos.val.y
             new_pos      == subtract_cursor_pos(ls, c).val
             new_cursor_y == new_pos.y
             ls1 == IF cursor_x > 0
                    THEN set_line(ls, cursor_y,
                                  remove_range(get_line_at(ls, cursor_y).val,
                                               saturating_sub(cursor_index, 1),
                                               cursor_index))
                    ELSE ls
             join == new_cursor_y < cursor_y
             new_cursor_x == IF join THEN len_chars(get_line_at(ls1, new_cursor_y).val)
                             ELSE new_pos.x
             joined == IF join THEN append_to_prev_line(ls1, c.y)
                       ELSE [ok |-> TRUE, lines |-> ls1]
         IN  IF ~joined.ok THEN EditErr(joined.lines, c)
             ELSE Edited(joined.lines, [x |-> new_cursor_x, y |-> new_cursor_y])

----------------------------------------------------------------------------
(* Editor::update: the whole handling of one input event by one editor.     *)
(* The result is the status ("Ok", "Err": an Err returned to the caller,    *)
(* "Panic": the process aborted) and the content, cursor and mode after it. *)

Updated(status, ls, c, m) == [status |-> status, lines |-> ls, cursor |-> c, mode |-> m]

\* Mutant of update_command: a character key is typed into the document.
update_command_types(ls, c, m, key) ==
    IF key.code = "Esc" THEN Updated("Ok", ls, c, "Normal")
    ELSE IF key.code = "Char" THEN Updated("Ok", add_char(ls, c, key.ch).lines, c, m)
    ELSE Updated("Ok", ls, c, m)

\* Mutant of update_command: every key but Esc goes on to handle_key.
update_command_handles_keys(ls, c, m, key) ==
    IF key.code = "Esc" THEN Updated("Ok", ls, c, "Normal")
    ELSE Updated("Ok", ls, handle_key(ls, c, m, key).cursor, m)

\* Mutant of update_command: Esc leaves Command mode for Insert mode.
update_command_to_insert(ls, c, m, key) ==
    IF key.code = "Esc" THEN Updated("Ok", ls, c, "Insert") ELSE Updated("Ok", ls, c, m)

\* Editor::update_command: matches on the code alone.
update_command(ls, c, m, key) ==
    IF key.code = "Esc" THEN Updated("Ok", ls, c, "Normal") ELSE Updated("Ok", ls, c, m)

\* The Some(TextBlockEvent::Char(c)) arm of Editor::update.
update_char(ls, c, m, ch) ==
    LET added == add_char(ls, c, ch) IN
    IF ~added.ok THEN Updated("Err", ls, c, m)
    ELSE LET cursor_position == get_cursor_pos(added.lines, c).val
         IN  Updated("Ok", added.lines, [c EXCEPT !.x = cursor_position.x + 1], m)

\* The Some(TextBlockEvent::NewLine) arm: new_line splits the list at row + 1.
update_new_line(ls, c, m) ==
    LET r == new_line(ls, c) IN
    IF ~r.ok THEN Updated("Err", ls, c, m)
    ELSE IF split_off_panics(ls, c.y + 1) THEN Updated("Panic", ls, c, m)
    ELSE Updated("Ok", r.lines, r.cursor, m)

\* The Some(TextBlockEvent::Delete) arm.
update_delete(ls, c, m) ==
    LET r == delete(ls, c) IN
    IF ~r.ok THEN Updated("Err", r.lines, r.cursor, m)
    ELSE Updated("Ok", r.lines, r.cursor, m)

\* Mutant of Editor::update: in Insert mode the arrow keys are not handled.
editor_update_arrows_in_normal_only(ls, c, m, key) ==
    IF m = "Command" THEN update_command(ls, c, m, key)
    ELSE IF m = "Insert" /\ key.code \in {"Left", "Right", "Up", "Down"}
    THEN Updated("Ok", ls, c, m)
    ELSE LET dispatch(h) ==
                 IF ~h.ok THEN Updated("Err", ls, c, m)
                 ELSE CASE h.event = "Char"    -> update_char(ls, h.cursor, h.mode, key.ch)
                        [] h.event = "NewLine" -> update_new_line(ls, h.cursor, h.mode)
                        [] h.event = "Delete"  -> update_delete(ls, h.cursor, h.mode)
                        [] OTHER               -> Updated("Ok", ls, h.cursor, h.mode)
         IN  dispatch(handle_key(ls, c, m, key))

editor_update(ls, c, m, key) ==
    IF m = "Command" THEN update_command(ls, c, m, key)
    ELSE LET h == handle_key(ls, c, m, key) IN
         IF ~h.ok THEN Updated("Err", ls, c, m)
         ELSE CASE h.event = "Char"    -> update_char(ls, h.cursor, h.mode, key.ch)
                [] h.event = "NewLine" -> update_new_line(ls, h.cursor, h.mode)
                [] h.event = "Delete"  -> update_delete(ls, h.cursor, h.mode)
                [] OTHER               -> Updated("Ok", ls, h.cursor, h.mode)

----------------------------------------------------------------------------
(* Rendering *)

\* Mutant of get_effective_size: the size as requested, not clipped.
get_effective_size_unclipped(sz, pos, win) == [width |-> sz.x, height |-> sz.y]

\* TextBlock::get_effective_size (the u16 conversions cannot fail at the
\* sizes of the model).
get_effective_size(sz, pos, win) ==
    [width  |-> saturating_sub(Min(sz.x + pos.x, win.width), pos.x),
     height |-> saturating_sub(Min(sz.y + pos.y, win.height), pos.y)]

\* Mutant of scroll: the horizontal offset follows the cursor column alone.
scroll_by_cursor_column(ls, c, off, sz, pos, win) ==
    LET eff  == get_effective_size(sz, pos, win)
        y1   == IF saturating_sub(c.y, off.y) > saturating_sub(eff.height, 1)
                THEN off.y + 1 ELSE off.y
        y2   == IF saturating_sub(c.y + 1, y1) = 0 THEN saturating_sub(y1, 1) ELSE y1
        current_line == get_line_at(ls, c.y)
    IN  IF ~current_line.ok THEN [ok |-> FALSE, offset |-> [off EXCEPT !.y = y2]]
        ELSE [ok |-> TRUE, offset |-> [x |-> saturating_sub(c.x, eff.width), y |-> y2]]

\* Mutant of scroll: the vertical offset snaps to the row that shows the cursor.
scroll_snap_to_cursor(ls, c, off, sz, pos, win) ==
    LET eff  == get_effective_size(sz, pos, win)
        y2   == IF saturating_sub(c.y, off.y) > saturating_sub(eff.height, 1)
                THEN c.y - saturating_sub(eff.height, 1)
                ELSE IF c.y < off.y THEN c.y ELSE off.y
        current_line == get_line_at(ls, c.y)
    IN  IF ~current_line.ok THEN [ok |-> FALSE, offset |-> [off EXCEPT !.y = y2]]
        ELSE [ok     |-> TRUE,
              offset |-> [x |-> Min(saturating_sub(c.x, eff.width),
                                    saturating_sub(len_chars(current_line.val), eff.width)),
                          y |-> y2]]

\* Mutant of scroll: the vertical offset never moves back up.
scroll_down_only(ls, c, off, sz, pos, win) ==
    LET eff  == get_effective_size(sz, pos, win)
        y1   == IF saturating_sub(c.y, off.y) > saturating_sub(eff.height, 1)
                THEN off.y + 1 ELSE off.y
        current_line == get_line_at(ls, c.y)
    IN  IF ~current_line.ok THEN [ok |-> FALSE, offset |-> [off EXCEPT !.y = y1]]
        ELSE [ok     |-> TRUE,
              offset |-> [x |-> Min(saturating_sub(c.x, eff.width),
                                    saturating_sub(len_chars(current_line.val), eff.width)),
                          y |-> y1]]

\* Mutant of scroll: the vertical offset moves down one row late, when the
\* cursor is more than a row below the window.
scroll_one_row_late(ls, c, off, sz, pos, win) ==
    LET eff  == get_effective_size(sz, pos, win)
        y1   == IF saturating_sub(c.y, off.y) > eff.height THEN off.y + 1 ELSE off.y
        y2   == IF saturating_sub(c.y + 1, y1) = 0 THEN saturating_sub(y1, 1) ELSE y1
        current_line == get_line_at(ls, c.y)
    IN  IF ~current_line.ok THEN [ok |-> FALSE, offset |-> [off EXCEPT !.y = y2]]
        ELSE [ok     |-> TRUE,
              offset |-> [x |-> Min(saturating_sub(c.x, eff.width),
                                    saturating_sub(len_chars(current_line.val), eff.width)),
                          y |-> y2]]

\* TextBlock::scroll: [ok, offset].  The vertical offset is written before the
\* line lookup that can fail, the horizontal one after it.
scroll(ls, c, off, sz, pos, win) ==
    LET eff  == get_effective_size(sz, pos, win)
        y1   == IF saturating_sub(c.y, off.y) > saturating_sub(eff.height, 1)
                THEN off.y + 1 ELSE off.y
        y2   == IF saturating_sub(c.y + 1, y1) = 0 THEN saturating_sub(y1, 1) ELSE y1
        current_line == get_line_at(ls, c.y)
    IN  IF ~current_line.ok THEN [ok |-> FALSE, offset |-> [off EXCEPT !.y = y2]]
        ELSE LET offset_cursor == saturating_sub(c.x, eff.width)
                 offset_current_line ==
                     saturating_sub(len_chars(current_line.val), eff.width)
             IN  [ok     |-> TRUE,
                  offset |-> [x |-> Min(offset_cursor, offset_current_line), y |-> y2]]

\* The slice of one line TextBlock::render prints: "" when get_slice gives
\* None, and "" when the slice is not contiguous in the rope.
render_slice(l, off, sz, eff) ==
    LET printed(end) ==
            IF ~get_slice(l, off.x, end).some THEN <<>>
            ELSE LET text == as_str(l, off.x, end)
                 IN  IF text.some THEN text.val ELSE <<>>
    IN  printed(Min(Min(off.x + sz.x, len_chars(l)), off.x + eff.width))

\* TextBlock::render: [ok, offset, out]; out is the sequence of slices printed,
\* one per row.
render(ls, c, off, sz, pos, win) ==
    LET sc == scroll(ls, c, off, sz, pos, win) IN
    IF ~sc.ok THEN [ok |-> FALSE, offset |-> sc.offset, out |-> <<>>]
    ELSE LET eff     == get_effective_size(sz, pos, win)
             skipped == SubSeq(ls, sc.offset.y + 1, Len(ls))
             taken   == SubSeq(skipped, 1, Min(eff.height, Len(skipped)))
         IN  [ok     |-> TRUE,
              offset |-> sc.offset,
              out    |-> [i \in 1..Len(taken) |-> render_slice(taken[i], sc.offset, sz, eff)]]

\* TextBlock::get_cursor_term_pos: the on-screen cursor coordinate (the u16
\* conversions cannot fail at the sizes of the model).
get_cursor_term_pos(ls, c, off, pos) ==
    LET line_len == get_line_len(ls, c.y) IN
    IF ~line_len.ok THEN Err
    ELSE Ok([x |-> Min(saturating_sub(c.x, off.x) + pos.x,
                       saturating_sub(line_len.val, off.x) + pos.x),
             y |-> saturating_sub(c.y, off.y) + pos.y])

----------------------------------------------------------------------------
(* The state machine *)

Origin == [x |-> 0, y |-> 0]

\* Editor::new: the status document starts as the one line "INSERT".
InitialInfo == << <<"I", "N", "S", "E", "R", "T">> >>

\* Editor::render: the label of a mode.
mode_label(m) ==
    CASE m = "Normal"  -> <<"-", "-", " ", "N", "O", "R", "M", "A", "L", " ", "-", "-">>
      [] m = "Insert"  -> <<"-", "-", " ", "I", "N", "S", "E", "R", "T", " ", "-", "-">>
      [] m = "Command" -> <<"-", "-", " ", "C", "O", "M", "M", "A", "N", "D", " ", "-", "-">>

\* Document::new: the lines of the file read (none for an empty file), or one
\* empty line when no path is given.
InitialContents ==
    { <<>>,
      << <<>> >>,
      << <<"i", ":">>, <<>> >> }

NoUndo == [phase |-> "none", v |-> 0, lines |-> <<>>, row |-> 0, col |-> 0]

\* TextBlock::new for every view in vs, with cursor None; all views get the
\* same content pointer.
InitWith(contents, vs) ==
    /\ lines \in contents
    /\ views = vs
    /\ cursor = [v \in ViewIds |-> Origin]
    /\ offset = [v \in ViewIds |-> Origin]
    /\ mode = [v \in ViewIds |-> "Normal"]
    /\ size = [v \in ViewIds |-> [x |-> 8, y |-> 8]]
    /\ position = [v \in ViewIds |-> Origin]
    /\ window_size = [width |-> 16, height |-> 16]
    /\ info = [v \in ViewIds |-> InitialInfo]
    /\ last = [op |-> "new", v |-> 0, key |-> NoKey, status |-> "Ok", out |-> <<>>,
               from |-> [cursor |-> Origin, mode |-> "Normal"], edited |-> FALSE]
    /\ undo = NoUndo

\* One editor on its document.
Init == InitWith(InitialContents, {1})

TotalChars(ls) ==
    LET RECURSIVE Sum(_)
        Sum(i) == IF i = 0 THEN 0 ELSE Len(ls[i]) + Sum(i - 1)
    IN  Sum(Len(ls))

\* The bound on the input: editor v is offered the keys of `keys`, typing only
\* the characters of `typed`, and only while the document is within the bounds.
Offered(v, key, keys, typed) ==
    /\ key \in keys
    /\ (mode[v] = "Insert" /\ key.code = "Char" /\ key.mods \in {"NONE", "SHIFT"})
          => (key.ch \in typed /\ TotalChars(lines) < MaxChars)
    /\ (mode[v] = "Insert" /\ IsCode(key, "NONE", "Enter")) => Len(lines) < MaxLines

\* Editor::update: editor v handles one input event.
Update(v, key) ==
    /\ v \in views
    /\ \E r \in {editor_update(lines, cursor[v], mode[v], key)} :
       \E pos \in {get_cursor_pos(lines, cursor[v])} :
       LET enter_at_eol ==
               /\ mode[v] = "Insert" /\ IsCode(key, "NONE", "Enter") /\ r.status = "Ok"
               /\ pos.val.x = len_chars(get_line_at(lines, pos.val.y).val)
           backspace_after ==
               /\ undo.phase = "entered" /\ undo.v = v
               /\ IsCode(key, "NONE", "Backspace")
       IN  /\ lines' = r.lines
           /\ cursor' = [cursor EXCEPT ![v] = r.cursor]
           /\ mode' = [mode EXCEPT ![v] = r.mode]
           /\ last' = [op |-> "update", v |-> v, key |-> key, status |-> r.status,
                       out |-> <<>>, from |-> [cursor |-> cursor[v], mode |-> mode[v]],
                       edited |-> r.lines # lines]
           /\ undo' = IF enter_at_eol
                      THEN [phase |-> "entered", v |-> v, lines |-> lines,
                            row |-> pos.val.y, col |-> pos.val.x]
                      ELSE IF backspace_after THEN [undo EXCEPT !.phase = "restored"]
                      ELSE NoUndo
    /\ UNCHANGED <<views, offset, size, position, window_size, info>>

\* TextBlock::render of view v (what Pane::render runs for each of its views):
\* the view scrolls, then prints its slices.
Render(v) ==
    /\ v \in views
    /\ \E r \in {render(lines, cursor[v], offset[v], size[v], position[v], window_size)} :
           /\ offset' = [offset EXCEPT ![v] = r.offset]
           /\ last' = [op |-> "render", v |-> v, key |-> NoKey,
                       status |-> IF r.ok THEN "Ok" ELSE "Err", out |-> r.out,
                       from |-> [cursor |-> cursor[v], mode |-> mode[v]],
                       edited |-> FALSE]
    /\ undo' = NoUndo
    /\ UNCHANGED <<lines, views, cursor, mode, size, position, window_size, info>>

\* Editor::render of editor v: the main view renders; when that succeeds the
\* status document is replaced by the one line of the mode label and the status
\* view renders it (its cursor and offset stay (0, 0) on that line, it cannot
\* fail).  A failure of the main view returns before the status document is
\* written.
EditorRender(v) ==
    /\ v \in views
    /\ \E r \in {render(lines, cursor[v], offset[v], size[v], position[v], window_size)} :
           /\ offset' = [offset EXCEPT ![v] = r.offset]
           /\ info' = IF r.ok THEN [info EXCEPT ![v] = <<mode_label(mode[v])>>] ELSE info
           /\ last' = [op |-> "editor_render", v |-> v, key |-> NoKey,
                       status |-> IF r.ok THEN "Ok" ELSE "Err", out |-> r.out,
                       from |-> [cursor |-> cursor[v], mode |-> mode[v]],
                       edited |-> FALSE]
    /\ undo' = NoUndo
    /\ UNCHANGED <<lines, views, cursor, mode, size, position, window_size>>

\* Editor v is handed one of the events offered.
Input(v) == \E key \in Keys : Offered(v, key, Keys, TypedChars) /\ Update(v, key)

Next == \E v \in ViewIds : Input(v) \/ Render(v)

Spec == Init /\ [][Next]_vars

----------------------------------------------------------------------------
(* Two views on one document: both are created with the same content pointer. *)

\* The events offered when two views share the document: view 1 edits (the i
\* key enters Insert mode and is the character typed there), view 2 only moves.
SharedKeys(v) ==
    IF v = 1
    THEN {Key("NONE", "Up", ""), Key("NONE", "Down", ""), Key("NONE", "Char", "i"),
          Key("NONE", "Enter", ""), Key("NONE", "Backspace", "")}
    ELSE {Key("NONE", "Up", ""), Key("NONE", "Down", ""), Key("NONE", "Right", "")}

SharedTypedChars == {"i"}

InitShared == InitWith({ << <<>> >>, << <<":">>, <<>> >> }, {1, 2})

InputShared(v) ==
    \E key \in SharedKeys(v) :
        Offered(v, key, SharedKeys(v), SharedTypedChars) /\ Update(v, key)

NextShared == \E v \in ViewIds : InputShared(v) \/ Render(v)

SpecShared == InitShared /\ [][NextShared]_vars

----------------------------------------------------------------------------
(* Scrolling: one view smaller than its document, moved by the arrow keys. *)

\* Lines of 0, 3, 12 and 1 characters; the third is longer than a leaf.
ScrollContents ==
    { << <<>>,
         <<"h", "l", "k">>,
         <<"h", "l", "k", "j", "i", "b", "e", "w", "h", "l", "k", "j">>,
         <<"w">> >> }

\* size, position and terminal size of the view: a view inside the terminal,
\* a view clipped by the terminal on both axes, and a view left without width.
ScrollGeometries ==
    { [size |-> [x |-> 2, y |-> 2], position |-> Origin,
       window_size |-> [width |-> 16, height |-> 16]],
      [size |-> [x |-> 3, y |-> 2], position |-> [x |-> 1, y |-> 1],
       window_size |-> [width |-> 3, height |-> 2]],
      [size |-> [x |-> 2, y |-> 2], position |-> [x |-> 2, y |-> 0],
       window_size |-> [width |-> 2, height |-> 2]] }

ScrollKeys == {Key("NONE", code, "") : code \in {"Left", "Right", "Up", "Down"}}

InitScroll ==
    /\ lines \in ScrollContents
    /\ views = {1}
    /\ cursor = [v \in ViewIds |-> Origin]
    /\ offset = [v \in ViewIds |-> Origin]
    /\ mode = [v \in ViewIds |-> "Normal"]
    /\ \E g \in ScrollGeometries :
          /\ size = [v \in ViewIds |-> g.size]
          /\ position = [v \in ViewIds |-> g.position]
          /\ window_size = g.window_size
    /\ info = [v \in ViewIds |-> InitialInfo]
    /\ last = [op |-> "new", v |-> 0, key |-> NoKey, status |-> "Ok", out |-> <<>>,
               from |-> [cursor |-> Origin, mode |-> "Normal"], edited |-> FALSE]
    /\ undo = NoUndo

InputScroll(v) ==
    \E key \in ScrollKeys : Offered(v, key, ScrollKeys, {}) /\ Update(v, key)

NextScroll == \E v \in ViewIds : InputScroll(v) \/ Render(v)

SpecScroll == InitScroll /\ [][NextScroll]_vars

----------------------------------------------------------------------------
(* Word motions: one view in Normal mode on a document of several tokens. *)

\* "bee web", "", " e:", "bee web bee": word and punctuation tokens, a leading
\* blank, an empty line, and a last line longer than a leaf.
WordContents ==
    { << <<"b", "e", "e", " ", "w", "e", "b">>,
         <<>>,
         <<" ", "e", ":">>,
         <<"b", "e", "e", " ", "w", "e", "b", " ", "b", "e", "e">> >> }

WordKeys ==
    {Key("NONE", code, "") : code \in {"Left", "Right", "Up", "Down"}}
    \cup {Key("NONE", "Char", ch) : ch \in {"w", "e", "b"}}

InitWords == InitWith(WordContents, {1})

InputWords(v) == \E key \in WordKeys : Offered(v, key, WordKeys, {}) /\ Update(v, key)

NextWords == \E v \in ViewIds : InputWords(v)

SpecWords == InitWords /\ [][NextWords]_vars

----------------------------------------------------------------------------
(* The Editor with its status view: mode changes, motions and render passes. *)

EditorKeys ==
    {Key("NONE", code, "") : code \in {"Esc", "Right", "Down"}}
    \cup {Key("NONE", "Char", ch) : ch \in {"i", ":"}}

InputEditor(v) ==
    \E key \in EditorKeys : Offered(v, key, EditorKeys, {}) /\ Update(v, key)

NextEditor == \E v \in ViewIds : InputEditor(v) \/ EditorRender(v)

SpecEditor == Init /\ [][NextEditor]_vars

----------------------------------------------------------------------------
(* Vertical follow: two views stacked on one document of six lines.  View 1 *)
(* is created with cursor None and moved by Up and Down; view 2 is created  *)
(* with a cursor on the last line, far below its one-row window, and is     *)
(* never given an event.  Every view keeps being rendered.                  *)

FollowContents ==
    { << <<"h">>, <<>>, <<"l", "k">>, <<>>, <<"j">>, <<"w">> >> }

\* TextBlock::new(content, size, position, cursor) of the two views.
FollowCursor == [v \in ViewIds |-> IF v = 1 THEN Origin ELSE [x |-> 0, y |-> 5]]

FollowSize == [v \in ViewIds |-> IF v = 1 THEN [x |-> 2, y |-> 2] ELSE [x |-> 2, y |-> 1]]

FollowPosition == [v \in ViewIds |-> IF v = 1 THEN Origin ELSE [x |-> 0, y |-> 2]]

FollowKeys == {Key("NONE", code, "") : code \in {"Up", "Down"}}

InitFollow ==
    /\ lines \in FollowContents
    /\ views = {1, 2}
    /\ cursor = FollowCursor
    /\ offset = [v \in ViewIds |-> Origin]
    /\ mode = [v \in ViewIds |-> "Normal"]
    /\ size = FollowSize
    /\ position = FollowPosition
    /\ window_size = [width |-> 16, height |-> 16]
    /\ info = [v \in ViewIds |-> InitialInfo]
    /\ last = [op |-> "new", v |-> 0, key |-> NoKey, status |-> "Ok", out |-> <<>>,
               from |-> [cursor |-> Origin, mode |-> "Normal"], edited |-> FALSE]
    /\ undo = NoUndo

InputFollow(v) ==
    v = 1 /\ \E key \in FollowKeys : Offered(v, key, FollowKeys, {}) /\ Update(v, key)

NextFollow == \E v \in ViewIds : InputFollow(v) \/ Render(v)

\* The render passes keep running: a render that would change something is
\* eventually made.
SpecFollow ==
    InitFollow /\ [][NextFollow]_vars /\ WF_vars(Render(1)) /\ WF_vars(Render(2))

----------------------------------------------------------------------------
(* The event loop of one view: a first render, then one event handled and   *)
(* one render pass after it, until a call reports a failure.  The op of     *)
(* `last` is the position in the loop.                                      *)

LoopContents ==
    { <<>>,
      << <<>> >>,
      << <<"i", ":">>, <<>>, <<"w">> >> }

\* A window of one row and a window of two rows.
LoopSizes == { [x |-> 8, y |-> 1], [x |-> 8, y |-> 2] }

LoopKeys ==
    {Key("NONE", code, "") : code \in {"Up", "Down", "Right", "Esc", "Enter", "Backspace"}}
    \cup {Key("NONE", "Char", ch) : ch \in {"i", "j", "k", "w", "e", "b"}}

LoopTypedChars == {"i"}

InitLoop ==
    /\ lines \in LoopContents
    /\ views = {1}
    /\ cursor = [v \in ViewIds |-> Origin]
    /\ offset = [v \in ViewIds |-> Origin]
    /\ mode = [v \in ViewIds |-> "Normal"]
    /\ \E sz \in LoopSizes : size = [v \in ViewIds |-> sz]
    /\ position = [v \in ViewIds |-> Origin]
    /\ window_size = [width |-> 16, height |-> 16]
    /\ info = [v \in ViewIds |-> InitialInfo]
    /\ last = [op |-> "new", v |-> 0, key |-> NoKey, status |-> "Ok", out |-> <<>>,
               from |-> [cursor |-> Origin, mode |-> "Normal"], edited |-> FALSE]
    /\ undo = NoUndo

InputLoop(v) ==
    /\ last.op \in {"new", "render"} /\ last.status = "Ok"
    /\ \E key \in LoopKeys : Offered(v, key, LoopKeys, LoopTypedChars) /\ Update(v, key)

RenderLoop(v) ==
    /\ last.op \in {"new", "update"} /\ last.status = "Ok"
    /\ Render(v)

NextLoop == \E v \in ViewIds : InputLoop(v) \/ RenderLoop(v)

SpecLoop == InitLoop /\ [][NextLoop]_vars

----------------------------------------------------------------------------
(* The effective size of a view, for every size, position and terminal size *)
(* up to MaxSide on each axis.                                              *)

Sides == 0..MaxSide

Extents == {[x |-> a, y |-> b] : a, b \in Sides}

InitSize ==
    /\ lines = << <<>> >>
    /\ views = {1}
    /\ cursor = [v \in ViewIds |-> Origin]
    /\ offset = [v \in ViewIds |-> Origin]
    /\ mode = [v \in ViewIds |-> "Normal"]
    /\ \E sz \in Extents : size = [v \in ViewIds |-> sz]
    /\ \E pos \in Extents : position = [v \in ViewIds |-> pos]
    /\ \E win \in Extents : window_size = [width |-> win.x, height |-> win.y]
    /\ info = [v \in ViewIds |-> InitialInfo]
    /\ last = [op |-> "new", v |-> 0, key |-> NoKey, status |-> "Ok", out |-> <<>>,
               from |-> [cursor |-> Origin, mode |-> "Normal"], edited |-> FALSE]
    /\ undo = NoUndo

\* TextBlock::get_effective_size of view v: out is <<width, height>>.
GetEffectiveSize(v) ==
    /\ v \in views
    /\ \E eff \in {get_effective_size(size[v], position[v], window_size)} :
           last' = [op |-> "get_effective_size", v |-> v, key |-> NoKey,
                    status |-> "Ok", out |-> <<eff.width, eff.height>>,
                    from |-> [cursor |-> cursor[v], mode |-> mode[v]],
                    edited |-> FALSE]
    /\ undo' = NoUndo
    /\ UNCHANGED <<lines, views, cursor, offset, mode, size, position, window_size, info>>

NextSize == \E v \in ViewIds : GetEffectiveSize(v)

SpecSize == InitSize /\ [][NextSize]_vars

----------------------------------------------------------------------------
(* Shorthands of the properties *)

\* The state was produced by view v handling `key`.
Handled_by(v, key) == last.op = "update" /\ last.v = v /\ last.key = key

\* The step is view v handling an event (its Editor::update returning).
UpdateStep(v) == last'.op = "update" /\ last'.v = v

\* The row of v's stored cursor is a row of the document.
RowExists(v) == cursor[v].y < Len(lines)

\* The cursor of v as read: the stored column clamped to the length of the
\* line; only used where the row exists.
ReadPos(v) ==
    [x |-> Min(cursor[v].x, Len(lines[cursor[v].y + 1])), y |-> cursor[v].y]

\* Line `row` of the document before and after the step.
Line(row) == lines[row + 1]

LineAfter(row) == lines'[row + 1]

----------------------------------------------------------------------------
(* C1: for a view that is the only one editing its document, when the        *)
(* document has N >= 1 lines the stored cursor row is within [0, N-1] in     *)
(* every reachable state, whatever motions, mode changes, inserts, Enters    *)
(* and Backspaces led to it.                                                 *)
C1_RowInRange ==
    Len(lines) >= 1 => \A v \in views : cursor[v].y >= 0 /\ cursor[v].y < Len(lines)

\* A Down motion from the last of several lines has left the cursor there.
C1_Witness ==
    /\ Handled_by(1, Key("NONE", "Down", ""))
    /\ Len(lines) >= 2
    /\ last.from.cursor.y = Len(lines) - 1
    /\ cursor[1].y = Len(lines) - 1

----------------------------------------------------------------------------
(* C2: a Document always has at least one line, right after creation from   *)
(* any sequence of initial lines (a source with no lines included) and      *)
(* after any sequence of inserts, Enters and Backspaces.                    *)
C2_NeverEmpty == Len(lines) >= 1

----------------------------------------------------------------------------
(* C3: with two views on one document, a character inserted through one     *)
(* view changes the shared line, the other view's stored cursor and mode    *)
(* are untouched by that edit, and what the other view prints at a render   *)
(* is the shared content as it is then, the inserted character included.    *)

\* What a view with scroll offset `off` and effective size `eff` shows of line l.
Shown(l, off, eff) == SubSeq(l, off.x + 1, Min(off.x + eff.width, Len(l)))

C3_InsertStep(a) ==
    (UpdateStep(a) /\ last'.status = "Ok" /\ mode[a] = "Insert" /\ last'.key.code = "Char"
        /\ RowExists(a))
    => LET pos == ReadPos(a)
           old == Line(pos.y)
       IN  /\ LineAfter(pos.y)
                = SubSeq(old, 1, pos.x) \o <<last'.key.ch>> \o SubSeq(old, pos.x + 1, Len(old))
           /\ \A b \in views \ {a} : cursor'[b] = cursor[b] /\ mode'[b] = mode[b]

C3_RenderStep(b) ==
    (last'.op = "render" /\ last'.v = b /\ last'.status = "Ok")
    => LET eff == get_effective_size(size[b], position[b], window_size)
       IN  \A i \in 1..Len(last'.out) :
              last'.out[i] = Shown(lines[offset'[b].y + i], offset'[b], eff)

C3_InsertSeenByOtherView ==
    [][\A a \in views : C3_InsertStep(a) /\ C3_RenderStep(a)]_vars

\* View 2 has printed a line holding the character only view 1 can type, with
\* its own cursor still where it was created.
C3_Witness ==
    /\ last.op = "render" /\ last.v = 2 /\ last.status = "Ok"
    /\ \E i \in 1..Len(last.out) : \E j \in 1..Len(last.out[i]) : last.out[i][j] = "i"
    /\ cursor[2] = Origin /\ mode[2] = "Normal"

----------------------------------------------------------------------------
(* C4: when a join through another view has left a view's stored row at or  *)
(* beyond the line count, that view's next event or render uses a clamped   *)
(* row and completes: the staleness is resolved at that read.               *)
StaleRow(b) == Len(lines) >= 1 /\ cursor[b].y >= Len(lines)

C4_StaleRowResolvedAtRead ==
    [][\A b \in views :
          (StaleRow(b) /\ last'.v = b /\ last'.op \in {"update", "render"})
          => last'.status = "Ok"]_vars

----------------------------------------------------------------------------
(* C5: every input event and every render pass, of any view, completes      *)
(* without reporting a failure or aborting.                                 *)
C5_NoFailure == last.status = "Ok"

----------------------------------------------------------------------------
(* C6: a view starts in Normal mode and its mode changes only by            *)
(* Normal -> Insert on i, Normal -> Command on :, Insert -> Normal on Esc   *)
(* and Command -> Normal on Esc; every other event leaves it as it is.      *)

\* The transitions the mode may make on `key`.
C6_Allowed(from, key, to) ==
    \/ from = "Normal"  /\ to = "Insert"  /\ key.code = "Char" /\ key.ch = "i"
    \/ from = "Normal"  /\ to = "Command" /\ key.code = "Char" /\ key.ch = ":"
    \/ from = "Insert"  /\ to = "Normal"  /\ key.code = "Esc"
    \/ from = "Command" /\ to = "Normal"  /\ key.code = "Esc"

\* The mode after a key pressed without modifiers.
C6_Plain(from, key) ==
    CASE from = "Normal" /\ IsChar(key, "NONE", "i")         -> "Insert"
      [] from = "Normal" /\ IsChar(key, "NONE", ":")         -> "Command"
      [] from \in {"Insert", "Command"} /\ IsCode(key, "NONE", "Esc") -> "Normal"
      [] OTHER                                               -> from

C6_ModeStep(v) ==
    /\ mode'[v] # mode[v] => (UpdateStep(v) /\ C6_Allowed(mode[v], last'.key, mode'[v]))
    /\ (UpdateStep(v) /\ last'.key.mods = "NONE") => mode'[v] = C6_Plain(mode[v], last'.key)

C6_ModeTransitions ==
    /\ \A v \in views : mode[v] = "Normal"
    /\ [][\A v \in views : C6_ModeStep(v)]_vars

\* The i key has taken the view from Normal to Insert mode.
C6_Witness ==
    /\ Handled_by(1, Key("NONE", "Char", "i")) /\ last.status = "Ok"
    /\ last.from.mode = "Normal" /\ mode[1] = "Insert"

----------------------------------------------------------------------------
(* C7: in Insert mode with the cursor read at the end of a line of length   *)
(* L on row `row`, Enter followed immediately by Backspace leaves the       *)
(* Document as it was before the Enter and the cursor at (row, L).          *)
C7_EnterBackspaceRoundTrip ==
    undo.phase = "restored"
    => /\ last.status = "Ok"
       /\ lines = undo.lines
       /\ cursor[undo.v] = [x |-> undo.col, y |-> undo.row]

\* The round trip has happened at the end of a non-empty line below the first.
C7_Witness == undo.phase = "restored" /\ undo.col > 0 /\ undo.row > 0

----------------------------------------------------------------------------
(* C8: Enter in Insert mode with the cursor read as (c, row) cuts the line   *)
(* at c when c < line_len (head stays at row, tail becomes the new line at   *)
(* row+1) and inserts an empty line at row+1 when c >= line_len; lines       *)
(* before row are unchanged, lines after row shift down by one, and the      *)
(* cursor becomes (row+1, 0).                                                *)
C8_EnterStep(v) ==
    (UpdateStep(v) /\ last'.status = "Ok" /\ mode[v] = "Insert"
        /\ IsCode(last'.key, "NONE", "Enter") /\ RowExists(v))
    => LET c   == ReadPos(v).x
           row == ReadPos(v).y
           old == Line(row)
       IN  /\ Len(lines') = Len(lines) + 1
           /\ IF c < Len(old)
              THEN /\ LineAfter(row) = SubSeq(old, 1, c)
                   /\ LineAfter(row + 1) = SubSeq(old, c + 1, Len(old))
              ELSE /\ LineAfter(row) = old
                   /\ LineAfter(row + 1) = <<>>
           /\ \A r \in 0..(Len(lines) - 1) :
                 /\ r < row => LineAfter(r) = Line(r)
                 /\ r > row => LineAfter(r + 1) = Line(r)
           /\ cursor'[v] = [x |-> 0, y |-> row + 1]

C8_EnterSplitsLine == [][\A v \in views : C8_EnterStep(v)]_vars

\* Enter inside a two-character line with a line below it: the head stays,
\* the tail is the new line, the line below has moved down.
C8_Witness ==
    /\ Handled_by(1, Key("NONE", "Enter", "")) /\ last.status = "Ok"
    /\ last.from.mode = "Insert" /\ last.from.cursor = [x |-> 1, y |-> 0]
    /\ lines = << <<"i">>, <<":">>, <<>> >>
    /\ cursor[1] = [x |-> 0, y |-> 1]

----------------------------------------------------------------------------
(* C9: Backspace in Insert mode when the cursor reads as (column 0, row 0)  *)
(* is a no-op: every line of the Document and the cursor, its stored column *)
(* and row, are unchanged.                                                  *)
C9_AtOrigin(v) ==
    /\ UpdateStep(v) /\ mode[v] = "Insert" /\ IsCode(last'.key, "NONE", "Backspace")
    /\ RowExists(v) /\ ReadPos(v) = Origin

C9_BackspaceAtOriginNoOp ==
    [][\A v \in views :
          C9_AtOrigin(v) => (lines' = lines /\ cursor'[v] = cursor[v])]_vars

----------------------------------------------------------------------------
(* C10: after any l / Right motion the cursor column is at least what it    *)
(* was before the motion and does not exceed the length of the current      *)
(* line.                                                                    *)
C10_RightMotion(v) ==
    /\ UpdateStep(v) /\ last'.status = "Ok" /\ RowExists(v)
    /\ \/ IsCode(last'.key, "NONE", "Right") /\ mode[v] \in {"Normal", "Insert"}
       \/ IsChar(last'.key, "NONE", "l") /\ mode[v] = "Normal"

C10_RightMonotonicWithinLine ==
    [][\A v \in views :
          C10_RightMotion(v)
          => /\ cursor'[v].x >= cursor[v].x
             /\ cursor'[v].x <= Len(Line(cursor[v].y))]_vars

\* As amended: the column does not decrease; it does not exceed the line
\* length unless it already did before the motion, and then it is unchanged.
C10_RightMonotonicKeepsStaleColumn ==
    [][\A v \in views :
          C10_RightMotion(v)
          => LET len == Len(Line(cursor[v].y)) IN
             /\ cursor'[v].x >= cursor[v].x
             /\ cursor[v].x <= len => cursor'[v].x <= len
             /\ cursor[v].x > len => cursor'[v].x = cursor[v].x
             /\ cursor'[v].y = cursor[v].y]_vars

\* A Right motion on a line shorter than the stored column has kept the column.
C10_Witness ==
    /\ Handled_by(1, Key("NONE", "Right", "")) /\ last.status = "Ok"
    /\ RowExists(1) /\ cursor[1].x > Len(Line(cursor[1].y))
    /\ last.from.cursor = cursor[1]

----------------------------------------------------------------------------
(* C11: on each render pass the vertical scroll offset changes by at most   *)
(* 1: it is incremented by exactly 1 when cursor.row - offset.row >         *)
(* effective_height - 1, decremented by exactly 1 when cursor.row + 1 -     *)
(* offset.row = 0 (saturating), and otherwise unchanged; the two never      *)
(* happen in the same render.                                               *)

\* View v renders in this step.
RenderStep(v) == last'.op = "render" /\ last'.v = v

\* min(size + screen_position, total_screen_size) - screen_position, saturating.
EffectiveHeight(v) ==
    saturating_sub(Min(size[v].y + position[v].y, window_size.height), position[v].y)

EffectiveWidth(v) ==
    saturating_sub(Min(size[v].x + position[v].x, window_size.width), position[v].x)

C11_VerticalStep(v) ==
    RenderStep(v)
    => LET below == saturating_sub(cursor[v].y, offset[v].y)
                        > saturating_sub(EffectiveHeight(v), 1)
           above == saturating_sub(cursor[v].y + 1, offset[v].y) = 0
       IN  /\ ~(below /\ above)
           /\ below => offset'[v].y = offset[v].y + 1
           /\ above => offset[v].y >= 1 /\ offset'[v].y = offset[v].y - 1
           /\ ~(below \/ above) => offset'[v].y = offset[v].y

C11_VerticalOffsetFollowsByOne == [][\A v \in views : C11_VerticalStep(v)]_vars

\* A render has moved the offset up by one with the cursor still two rows
\* above the first row shown.
C11_Witness ==
    /\ last.op = "render" /\ last.v = 1 /\ last.status = "Ok"
    /\ offset[1].y = 2 /\ cursor[1].y = 0

----------------------------------------------------------------------------
(* C12: after every render pass the horizontal scroll offset equals         *)
(* min(cursor.column -| effective_width, current_line_length -|             *)
(* effective_width), whatever it was before.                                *)
C12_HorizontalStep(v) ==
    (RenderStep(v) /\ RowExists(v))
    => offset'[v].x = Min(saturating_sub(cursor[v].x, EffectiveWidth(v)),
                          saturating_sub(Len(Line(cursor[v].y)), EffectiveWidth(v)))

C12_HorizontalOffsetRecomputed == [][\A v \in views : C12_HorizontalStep(v)]_vars

\* A render with the stored column 6 on the 3-character line and width 2:
\* the offset is the line's 3 - 2 = 1, not the cursor's 6 - 2 = 4.
C12_Witness ==
    /\ last.op = "render" /\ last.v = 1 /\ last.status = "Ok"
    /\ EffectiveWidth(1) = 2
    /\ cursor[1] = [x |-> 6, y |-> 1] /\ offset[1].x = 1

----------------------------------------------------------------------------
(* C13: after a render pass with effective_width >= 1 the cursor is         *)
(* horizontally visible: its on-screen column lies inside the columns the   *)
(* view draws, [screen_position.x, screen_position.x + effective_width).    *)
C13_CursorVisibleAfterRender ==
    \A v \in views :
        (last.op = "render" /\ last.v = v /\ last.status = "Ok" /\ EffectiveWidth(v) >= 1)
        => LET term == get_cursor_term_pos(lines, cursor[v], offset[v], position[v])
           IN  /\ term.ok
               /\ term.val.x >= position[v].x
               /\ term.val.x < position[v].x + EffectiveWidth(v)

----------------------------------------------------------------------------
(* C19: on each render pass the view emits at most effective_height rows,   *)
(* starting at document row offset.y in document order; the slice emitted   *)
(* for each row is exactly the characters of that line at offsets           *)
(* [offset.x, offset.x + effective_width) within [0, line_len), empty when  *)
(* the line is shorter than offset.x; rendering never modifies the          *)
(* Document.                                                                *)
C19_RenderPass(v) ==
    (RenderStep(v) /\ last'.status = "Ok")
    => LET out   == last'.out
           first == offset'[v].y
           width == EffectiveWidth(v)
       IN  /\ lines' = lines
           /\ Len(out) = Min(EffectiveHeight(v), saturating_sub(Len(lines), first))
           /\ \A i \in 1..Len(out) :
                 LET l == lines[first + i]
                 IN  out[i] = SubSeq(l, offset'[v].x + 1, Min(offset'[v].x + width, Len(l)))

C19_RenderEmitsVisibleSlices == [][\A v \in views : C19_RenderPass(v)]_vars

----------------------------------------------------------------------------
(* C14: w in Normal mode moves the cursor forward to the start of the next  *)
(* word: when some token starts to the right of the cursor column on the    *)
(* current line the cursor lands on the nearest such start (row unchanged,  *)
(* column strictly greater); when none exists it jumps to the first token's *)
(* start on row+1; when that also yields nothing it falls back to the       *)
(* current word's end.                                                      *)

\* The tokens of row `row`, left to right; none when there is no such row.
Tokens(row) == IF row < Len(lines) THEN captures_iter(Line(row)) ELSE <<>>

\* View v handles the plain character ch in Normal mode on an existing row.
NormalCharStep(v, ch) ==
    /\ UpdateStep(v) /\ last'.status = "Ok" /\ IsChar(last'.key, "NONE", ch)
    /\ mode[v] = "Normal" /\ RowExists(v)

C14_WStep(v) ==
    NormalCharStep(v, "w")
    => LET col   == cursor[v].x
           row   == cursor[v].y
           toks  == Tokens(row)
           right == {i \in 1..Len(toks) : toks[i].start > col}
       IN  IF right # {}
           THEN LET first == CHOOSE i \in right : \A j \in right : i <= j
                IN  cursor'[v] = [x |-> toks[first].start, y |-> row]
           ELSE IF Tokens(row + 1) # <<>>
           THEN cursor'[v] = [x |-> Tokens(row + 1)[1].start, y |-> row + 1]
           ELSE /\ cursor'[v].y = row
                /\ \/ cursor'[v].x = col
                   \/ \E i \in 1..Len(toks) : cursor'[v].x = toks[i].end - 1

C14_WMovesToNextWordStart == [][\A v \in views : C14_WStep(v)]_vars

----------------------------------------------------------------------------
(* C15: e in Normal mode moves to the next word end: it takes the first     *)
(* token on the current line whose end > column and puts the cursor on      *)
(* end-1, unless end-1 = column, in which case it goes to the following     *)
(* token's end-1; whenever the row is unchanged the column strictly         *)
(* increases; when no such token exists on the current line it jumps to     *)
(* (row+1, end-1 of that line's first token).                               *)
C15_EStep(v) ==
    NormalCharStep(v, "e")
    => LET col   == cursor[v].x
           row   == cursor[v].y
           toks  == Tokens(row)
           ahead == {i \in 1..Len(toks) : toks[i].end > col}
           first == CHOOSE i \in ahead : \A j \in ahead : i <= j
           here  == ahead # {} /\ toks[first].end - 1 # col
           after == ahead # {} /\ toks[first].end - 1 = col /\ first < Len(toks)
       IN  /\ here => cursor'[v] = [x |-> toks[first].end - 1, y |-> row]
           /\ after => cursor'[v] = [x |-> toks[first + 1].end - 1, y |-> row]
           /\ (~here /\ ~after /\ Tokens(row + 1) # <<>>)
                 => cursor'[v] = [x |-> Tokens(row + 1)[1].end - 1, y |-> row + 1]
           /\ (cursor'[v].y = row /\ cursor'[v] # cursor[v]) => cursor'[v].x > col

C15_EMovesToNextWordEnd == [][\A v \in views : C15_EStep(v)]_vars

----------------------------------------------------------------------------
(* C16: b in Normal mode moves to the previous word start: the column       *)
(* becomes the start of the right-most token lying fully left of the        *)
(* column (token end <= column) on the current line; if no such token       *)
(* exists it jumps to the start of the last token on row-1, and is a no-op  *)
(* when row = 0.                                                            *)
C16_BStep(v) ==
    NormalCharStep(v, "b")
    => LET col  == cursor[v].x
           row  == cursor[v].y
           toks == Tokens(row)
           left == {i \in 1..Len(toks) : toks[i].end <= col}
       IN  IF left # {}
           THEN LET rightmost == CHOOSE i \in left : \A j \in left : j <= i
                IN  cursor'[v] = [x |-> toks[rightmost].start, y |-> row]
           ELSE IF row = 0 THEN cursor'[v] = cursor[v]
           ELSE LET prev == Tokens(row - 1)
                IN  IF prev # <<>>
                    THEN cursor'[v] = [x |-> prev[Len(prev)].start, y |-> row - 1]
                    ELSE cursor'[v] = cursor[v]

C16_BMovesToPreviousWordStart == [][\A v \in views : C16_BStep(v)]_vars

----------------------------------------------------------------------------
(* C17: while a view is in Command mode every input event other than Esc   *)
(* is a no-op: the mode stays Command and the cursor, the scroll offset and *)
(* the Document are unchanged; Esc returns the mode to Normal.              *)
C17_CommandStep(v) ==
    (UpdateStep(v) /\ mode[v] = "Command")
    => /\ last'.status = "Ok"
       /\ lines' = lines /\ cursor' = cursor /\ offset' = offset
       /\ mode'[v] = IF last'.key.code = "Esc" THEN "Normal" ELSE "Command"

C17_CommandModeOnlyEsc == [][\A v \in views : C17_CommandStep(v)]_vars

\* A Right arrow has been handled in Command mode on a line with room to move.
C17_Witness ==
    /\ Handled_by(1, Key("NONE", "Right", "")) /\ last.from.mode = "Command"
    /\ mode[1] = "Command"
    /\ RowExists(1) /\ cursor[1].x < Len(Line(cursor[1].y))

----------------------------------------------------------------------------
(* C18: in every mode (Normal, Insert and Command) the Left / Right / Up /  *)
(* Down arrow keys change the cursor exactly as h / l / k / j do in Normal  *)
(* mode from the same cursor and document, and leave the mode and the       *)
(* Document unchanged.                                                      *)

\* The letter bound to the motion of an arrow key.
LetterOf(code) ==
    CASE code = "Left" -> "h" [] code = "Right" -> "l"
      [] code = "Up" -> "k" [] code = "Down" -> "j"

\* View v handles a plain arrow key in one of `modes`.
ArrowStep(v, modes) ==
    /\ UpdateStep(v) /\ last'.key.mods = "NONE"
    /\ last'.key.code \in {"Left", "Right", "Up", "Down"}
    /\ mode[v] \in modes

\* The step leaves the cursor where the letter of the arrow would in Normal
\* mode, with the same result, and keeps the mode and the Document.
AsLetterInNormal(v) ==
    LET letter == editor_update(lines, cursor[v], "Normal",
                                Key("NONE", "Char", LetterOf(last'.key.code)))
    IN  /\ cursor'[v] = letter.cursor
        /\ last'.status = letter.status
        /\ mode'[v] = mode[v]
        /\ lines' = lines

C18_ArrowsAsLettersInEveryMode ==
    [][\A v \in views :
          ArrowStep(v, {"Normal", "Insert", "Command"}) => AsLetterInNormal(v)]_vars

\* As amended: the equivalence holds in Normal and Insert mode; in Command
\* mode an arrow key leaves the cursor, the mode and the Document as they are.
C18_ArrowsAsLettersOutsideCommand ==
    [][\A v \in views :
          /\ ArrowStep(v, {"Normal", "Insert"}) => AsLetterInNormal(v)
          /\ ArrowStep(v, {"Command"})
                => (cursor'[v] = cursor[v] /\ mode'[v] = mode[v] /\ lines' = lines)]_vars

\* A Right arrow has moved the cursor one column in Insert mode.
C18_Witness ==
    /\ Handled_by(1, Key("NONE", "Right", "")) /\ last.status = "Ok"
    /\ last.from.mode = "Insert" /\ mode[1] = "Insert"
    /\ cursor[1] = [last.from.cursor EXCEPT !.x = @ + 1]

----------------------------------------------------------------------------
(* C20: after every render pass of an Editor its status view's document is  *)
(* exactly one line, the label of the main view's current mode; no input    *)
(* event edits the status document.                                         *)
C20_Step(v) ==
    /\ (last'.op = "editor_render" /\ last'.v = v)
          => info'[v] = <<mode_label(mode'[v])>>
    /\ UpdateStep(v) => info' = info

C20_StatusShowsMode == [][\A v \in views : C20_Step(v)]_vars

----------------------------------------------------------------------------
(* C21: Backspace in Insert mode with the cursor read as (0, row), row > 0, *)
(* joins the line into the previous one: line row-1 becomes                 *)
(* old(row-1) ++ old(row), the original row is removed (the line count      *)
(* decreases by exactly 1, later lines shift up), all other lines are       *)
(* unchanged, and the cursor becomes (row-1, length of line row-1 before    *)
(* the join).                                                               *)

\* View v handles Backspace in Insert mode on an existing row.
BackspaceStep(v) ==
    /\ UpdateStep(v) /\ mode[v] = "Insert" /\ IsCode(last'.key, "NONE", "Backspace")
    /\ RowExists(v)

C21_JoinStep(v) ==
    (BackspaceStep(v) /\ ReadPos(v).x = 0 /\ ReadPos(v).y > 0)
    => LET row == ReadPos(v).y IN
       /\ last'.status = "Ok"
       /\ Len(lines') = Len(lines) - 1
       /\ LineAfter(row - 1) = Line(row - 1) \o Line(row)
       /\ \A r \in 0..(Len(lines) - 1) :
             /\ r < row - 1 => LineAfter(r) = Line(r)
             /\ r > row => LineAfter(r - 1) = Line(r)
       /\ cursor'[v] = [x |-> Len(Line(row - 1)), y |-> row - 1]

C21_BackspaceJoinsLines == [][\A v \in views : C21_JoinStep(v)]_vars

\* Backspace at the start of ":" below "i" has made "i:", the cursor is
\* between the two and the line that was below has moved up.
C21_Witness ==
    /\ Handled_by(1, Key("NONE", "Backspace", "")) /\ last.status = "Ok"
    /\ last.from.mode = "Insert" /\ last.from.cursor = [x |-> 0, y |-> 1]
    /\ lines = << <<"i", ":">>, <<>> >>
    /\ cursor[1] = [x |-> 1, y |-> 0]

----------------------------------------------------------------------------
(* C22: Backspace in Insert mode with the cursor read as (c, row), c > 0 (c *)
(* the stored column clamped to the line length), removes exactly the one   *)
(* character at offset c-1 of line row, leaves every other line and the     *)
(* line count unchanged, and sets the cursor to (row, c-1).                 *)
C22_RemoveStep(v) ==
    (BackspaceStep(v) /\ ReadPos(v).x > 0)
    => LET c   == ReadPos(v).x
           row == ReadPos(v).y
           old == Line(row)
       IN  /\ last'.status = "Ok"
           /\ Len(lines') = Len(lines)
           /\ LineAfter(row) = SubSeq(old, 1, c - 1) \o SubSeq(old, c + 1, Len(old))
           /\ \A r \in 0..(Len(lines) - 1) : r # row => LineAfter(r) = Line(r)
           /\ cursor'[v] = [x |-> c - 1, y |-> row]

C22_BackspaceRemovesOneChar == [][\A v \in views : C22_RemoveStep(v)]_vars

\* Backspace between the two characters of "i:" has left ":" with the cursor
\* in front of it.
C22_Witness ==
    /\ Handled_by(1, Key("NONE", "Backspace", "")) /\ last.status = "Ok"
    /\ last.from.mode = "Insert" /\ last.from.cursor = [x |-> 1, y |-> 0]
    /\ lines = << <<":">>, <<>> >>
    /\ cursor[1] = Origin

----------------------------------------------------------------------------
(* C23: in Insert mode a printable character ch (no modifier or Shift) with *)
(* the cursor read as (c, row), c = min(stored column, line_len), turns     *)
(* line row into old[0..c) ++ ch ++ old[c..), leaves all other lines, the   *)
(* line count and the cursor row unchanged, and sets the cursor column to   *)
(* c+1; the insertion offset never exceeds the line length.                 *)
C23_InsertStep(v) ==
    (UpdateStep(v) /\ mode[v] = "Insert" /\ last'.key.code = "Char"
        /\ last'.key.mods \in {"NONE", "SHIFT"} /\ RowExists(v))
    => LET c   == ReadPos(v).x
           row == ReadPos(v).y
           old == Line(row)
       IN  /\ last'.status = "Ok"
           /\ c <= Len(old)
           /\ Len(lines') = Len(lines)
           /\ LineAfter(row)
                = SubSeq(old, 1, c) \o <<last'.key.ch>> \o SubSeq(old, c + 1, Len(old))
           /\ \A r \in 0..(Len(lines) - 1) : r # row => LineAfter(r) = Line(r)
           /\ cursor'[v] = [x |-> c + 1, y |-> row]

C23_InsertAtCursor == [][\A v \in views : C23_InsertStep(v)]_vars

----------------------------------------------------------------------------
(* C24: when a cross-line word motion targets an existing adjacent line     *)
(* that has no tokens (empty or whitespace only), the looked-up start/end   *)
(* defaults to offset 0 rather than failing: e with no further word end on  *)
(* the current line moves the cursor to (row+1, 0), and b with no previous  *)
(* word start on the current line and row > 0 moves it to (row-1, 0).       *)

\* Row `row` exists and holds no token.
NoTokens(row) == row >= 0 /\ row < Len(lines) /\ Tokens(row) = <<>>

C24_EStep(v) ==
    LET col == cursor[v].x
        row == cursor[v].y
    IN  (/\ NormalCharStep(v, "e")
         /\ \A i \in 1..Len(Tokens(row)) : Tokens(row)[i].end - 1 <= col
         /\ NoTokens(row + 1))
        => cursor'[v] = [x |-> 0, y |-> row + 1]

C24_BStep(v) ==
    LET col == cursor[v].x
        row == cursor[v].y
    IN  (/\ NormalCharStep(v, "b")
         /\ \A i \in 1..Len(Tokens(row)) : Tokens(row)[i].start >= col
         /\ row > 0 /\ NoTokens(row - 1))
        => cursor'[v] = [x |-> 0, y |-> row - 1]

C24_EmptyLineDefaultsToZero == [][\A v \in views : C24_EStep(v) /\ C24_BStep(v)]_vars

----------------------------------------------------------------------------
(* C25: vertical follow catches up: from any cursor row and any vertical    *)
(* offset, if no further input arrives and render passes keep running with  *)
(* a fixed effective_height >= 1, then eventually                           *)
(* offset.y <= cursor.row <= offset.y + effective_height - 1 holds, and     *)
(* from then on the offset no longer changes.                               *)

\* The cursor row of v is inside its vertical window.
InWindow(v) ==
    /\ offset[v].y <= cursor[v].y
    /\ cursor[v].y <= offset[v].y + EffectiveHeight(v) - 1

\* A render pass with the cursor row inside the window keeps the vertical
\* offset, and a render pass right after a render pass keeps the whole offset.
C25_Settled(v) ==
    /\ (RenderStep(v) /\ InWindow(v)) => offset'[v].y = offset[v].y
    /\ (RenderStep(v) /\ InWindow(v) /\ last.op = "render" /\ last.v = v)
          => offset'[v] = offset[v]

C25_VerticalFollowCatchesUp ==
    /\ [][\A v \in views : C25_Settled(v)]_vars
    /\ ([]<><<UpdateStep(1)>>_vars) \/ <>[]InWindow(1)
    /\ ([]<><<UpdateStep(2)>>_vars) \/ <>[]InWindow(2)

\* View 2, created five rows below its one-row window and never given an
\* event, shows its cursor row after its render passes.
C25_Witness ==
    /\ last.op = "render" /\ last.v = 2 /\ last.status = "Ok"
    /\ EffectiveHeight(2) = 1
    /\ cursor[2].y = 5 /\ offset[2].y = 5

----------------------------------------------------------------------------
(* C26: for a single view with a fixed screen size and effective_height >=  *)
(* 1, starting at cursor (0,0) with offset (0,0) and running one render     *)
(* pass after every input event, the cursor row is inside the vertical      *)
(* window after every render, for any sequence of motions, Enter and        *)
(* Backspace.                                                               *)
C26_RowVisibleAfterEveryRender ==
    \A v \in views :
        (last.op = "render" /\ last.v = v /\ EffectiveHeight(v) >= 1) => InWindow(v)

\* The one-row window has followed the cursor down to the third line.
C26_Witness ==
    /\ last.op = "render" /\ last.v = 1 /\ last.status = "Ok"
    /\ EffectiveHeight(1) = 1
    /\ cursor[1].y = 2 /\ offset[1].y = 2

----------------------------------------------------------------------------
(* C27: the Document is modified only by events handled in Insert mode: any *)
(* input event handled while the view is in Normal or Command mode (motions *)
(* h/j/k/l/w/e/b, arrows, i, :, Esc, Enter, Backspace, any other key)       *)
(* leaves every line and the line count unchanged.                          *)
C27_NoEditOutsideInsert ==
    [][\A v \in views :
          (UpdateStep(v) /\ mode[v] \in {"Normal", "Command"}) => lines' = lines]_vars

\* Backspace has been handled in Normal mode with a character left of the
\* cursor, and the document is as it was.
C27_Witness ==
    /\ Handled_by(1, Key("NONE", "Backspace", "")) /\ last.status = "Ok"
    /\ last.from.mode = "Normal" /\ last.from.cursor = [x |-> 1, y |-> 0]
    /\ lines = << <<"i", ":">>, <<>> >>
    /\ ~last.edited

----------------------------------------------------------------------------
(* C28: the effective size of a view is, per axis,                          *)
(* min(size + screen_position, total_screen_size) saturating-minus          *)
(* screen_position; hence effective size <= requested size,                 *)
(* screen_position + effective size <= total_screen_size whenever           *)
(* screen_position <= total_screen_size, and the effective size is 0 (never *)
(* negative, never an error) when the view starts at or past the screen     *)
(* edge.                                                                    *)

\* The claim on one axis: requested size sz at position pos on a screen of
\* `total`, effective size eff.
C28_Axis(sz, pos, total, eff) ==
    /\ LET clipped == IF sz + pos < total THEN sz + pos ELSE total
       IN  eff = (IF clipped > pos THEN clipped - pos ELSE 0)
    /\ eff >= 0 /\ eff <= sz
    /\ pos <= total => pos + eff <= total
    /\ pos >= total => eff = 0

C28_EffectiveSizeClipped ==
    \A v \in views :
        (last.op = "get_effective_size" /\ last.v = v)
        => /\ last.status = "Ok"
           /\ C28_Axis(size[v].x, position[v].x, window_size.width, last.out[1])
           /\ C28_Axis(size[v].y, position[v].y, window_size.height, last.out[2])

\* A view that starts past the right edge and is cut by the bottom edge: no
\* width, and the rows that remain.
C28_Witness ==
    /\ last.op = "get_effective_size" /\ last.v = 1
    /\ size[1] = [x |-> 2, y |-> 3] /\ position[1] = [x |-> 3, y |-> 1]
    /\ window_size = [width |-> 2, height |-> 3]
    /\ last.out = <<0, 2>>

----------------------------------------------------------------------------
(* C29: after any h / Left motion the cursor column equals                  *)
(* min(saturating_sub(previous column, 1), saturating_sub(line_len, 1)): it *)
(* lies in [0, line_len-1] for a non-empty line and is 0 on an empty line,  *)
(* and the row and the Document are unchanged.                              *)
C29_LeftMotion(v) ==
    /\ UpdateStep(v) /\ last'.status = "Ok" /\ RowExists(v)
    /\ \/ IsCode(last'.key, "NONE", "Left") /\ mode[v] \in {"Normal", "Insert"}
       \/ IsChar(last'.key, "NONE", "h") /\ mode[v] = "Normal"

C29_LeftStep(v) ==
    C29_LeftMotion(v)
    => LET len  == Len(Line(cursor[v].y))
           back == IF cursor[v].x >= 1 THEN cursor[v].x - 1 ELSE 0
           top  == IF len >= 1 THEN len - 1 ELSE 0
       IN  /\ cursor'[v].x = (IF back < top THEN back ELSE top)
           /\ len >= 1 => (cursor'[v].x >= 0 /\ cursor'[v].x <= len - 1)
           /\ len = 0 => cursor'[v].x = 0
           /\ cursor'[v].y = cursor[v].y
           /\ lines' = lines

C29_LeftClampsIntoLine == [][\A v \in views : C29_LeftStep(v)]_vars

\* A Left motion with the stored column 2 on an empty line has put it at 0.
C29_Witness ==
    /\ Handled_by(1, Key("NONE", "Left", "")) /\ last.status = "Ok"
    /\ RowExists(1) /\ Len(Line(cursor[1].y)) = 0
    /\ last.from.cursor.x = 2 /\ last.from.cursor.y = cursor[1].y
    /\ cursor[1].x = 0

====
